---- MODULE Spec2Model ----
(***************************************************************************)
(* Model of cleanupCveFix.js: a one-shot script that, on Node.js >= 22,    *)
(* lists the eusec adapter instances with `iob object list` and clears     *)
(* common.nodeProcessParams of each with `iob object set`.                 *)
(*                                                                         *)
(* Text is modelled as a sequence of characters over a small alphabet.     *)
(* The literal `system.adapter.eusec.` (which cannot overlap itself) is    *)
(* the single character "P"; "0" and "2" are decimal digits, "x" is any    *)
(* other non-whitespace character and "NL" is the newline.                 *)
(*                                                                         *)
(* execSync blocks the script, so the script takes a step only when an     *)
(* external command is invoked or completes: one action runs all the code  *)
(* between two such points.                                                *)
(***************************************************************************)
EXTENDS Integers, Sequences, FiniteSets

VARIABLES version,       \* process.version
          pc,            \* position of main: "main", "listing", "fixing", "exited"
          output,        \* stdout of the inventory command, once it returned
          instances,     \* const instances in main
          idx,           \* position of the for-of loop in instances (0: not started)
          successCount,
          failCount,
          exitCode,      \* argument of process.exit, NoExit before
          calls,         \* every execSync invocation so far, in order
          running,       \* indexes in calls of the commands in flight
          host           \* the host's objects: object id -> common

vars == <<version, pc, output, instances, idx, successCount, failCount,
          exitCode, calls, running, host>>

\* Longest inventory output, in characters.
MaxLen == 5

\* Most lines of an inventory output made of whole lines.
MaxLines == 3

MinNodeVersion == 22

NoExit == -1

NL == "NL"
PREFIX == "P"
Digits == {"0", "2"}
Whitespace == {NL}
Alphabet == {PREFIX, "x", NL} \cup Digits

\* Every text of at most MaxLen characters.
CharOutputs == UNION { [1..n -> Alphabet] : n \in 0..MaxLen }

\* Longer texts: at most MaxLines lines, each one of LineTexts.
LineTexts == { <<PREFIX, "0">>, <<PREFIX, "2">>, <<PREFIX, "2", "0">>,
               <<PREFIX, "0", "2">>, <<PREFIX, "0", PREFIX, "2">>, <<"x">> }

RECURSIVE JoinLines(_)
JoinLines(ls) ==
    IF Len(ls) = 1 THEN ls[1]
    ELSE ls[1] \o <<NL>> \o JoinLines(Tail(ls))

LineOutputs ==
    { JoinLines(ls) : ls \in UNION { [1..k -> LineTexts] : k \in 1..MaxLines } }

Outputs == CharOutputs \cup LineOutputs

Versions == { <<"v", "9", ".", "2", "2">>,
              <<"v", "2", "1", ".", "9">>,
              <<"v", "2", "2", ".", "0">>,
              <<"v", "2", "3", ".", "1">> }

Range(s) == { s[i] : i \in 1..Len(s) }

----------------------------------------------------------------------------
(* Pure helpers *)

DigitVal(c) ==
    CASE c = "0" -> 0 [] c = "1" -> 1 [] c = "2" -> 2 [] c = "3" -> 3
      [] c = "4" -> 4 [] c = "5" -> 5 [] c = "6" -> 6 [] c = "7" -> 7
      [] c = "8" -> 8 [] c = "9" -> 9

\* parseInt(d, 10) of a string of decimal digits (exact below 2^53).
RECURSIVE ParseInt(_)
ParseInt(d) ==
    IF d = <<>> THEN 0
    ELSE ParseInt(SubSeq(d, 1, Len(d) - 1)) * 10 + DigitVal(d[Len(d)])

\* s.split(sep)[0]
BeforeFirst(s, sep) ==
    IF \E i \in 1..Len(s) : s[i] = sep
    THEN LET k == CHOOSE i \in 1..Len(s) :
                     /\ s[i] = sep
                     /\ \A j \in 1..(i - 1) : s[j] # sep
         IN  SubSeq(s, 1, k - 1)
    ELSE s

\* parseInt(version.split('.')[0].substring(1), 10)
getNodeVersion(v) == ParseInt(Tail(BeforeFirst(v, ".")))

\* Variant of the gate with the threshold one too low.
VersionTooOldOffByOne(nodeVersion) == nodeVersion < MinNodeVersion - 1
\* nodeVersion < 22
VersionTooOld(nodeVersion) == nodeVersion < MinNodeVersion

RECURSIVE TrimLeft(_)
TrimLeft(s) ==
    IF s # <<>> /\ Head(s) \in Whitespace THEN TrimLeft(Tail(s)) ELSE s

RECURSIVE TrimRight(_)
TrimRight(s) ==
    IF s # <<>> /\ s[Len(s)] \in Whitespace
    THEN TrimRight(SubSeq(s, 1, Len(s) - 1))
    ELSE s

\* String.prototype.trim
Trim(s) == TrimRight(TrimLeft(s))

\* s.split('\n')
RECURSIVE Split(_)
Split(s) ==
    IF \A i \in 1..Len(s) : s[i] # NL
    THEN <<s>>
    ELSE LET k == CHOOSE i \in 1..Len(s) :
                     /\ s[i] = NL
                     /\ \A j \in 1..(i - 1) : s[j] # NL
         IN  <<SubSeq(s, 1, k - 1)>> \o Split(SubSeq(s, k + 1, Len(s)))

\* The positions where /system\.adapter\.eusec\.(\d+)/ can match in s.
MatchStarts(s) ==
    { i \in 1..(Len(s) - 1) : s[i] = PREFIX /\ s[i + 1] \in Digits }

\* The greedy \d+ starting at position i of s.
DigitRun(s, i) ==
    LET e == CHOOSE j \in i..Len(s) :
                 /\ \A k \in i..j : s[k] \in Digits
                 /\ (j = Len(s) \/ s[j + 1] \notin Digits)
    IN  SubSeq(s, i, e)

\* Variant with (\d*) read through Number(): a prefix without digits gives 0.
LineMatchLoose(line) ==
    IF \E i \in 1..Len(line) : line[i] = PREFIX THEN <<"0">> ELSE <<>>
\* Variant that keeps the rightmost identifier of the line.
LineMatchLast(line) ==
    IF MatchStarts(line) = {} THEN <<>>
    ELSE LET i == CHOOSE p \in MatchStarts(line) :
                     \A q \in MatchStarts(line) : p >= q
         IN  DigitRun(line, i + 1)
\* line.match(/system\.adapter\.eusec\.(\d+)/): match[1] of the leftmost
\* match, <<>> for null.
LineMatch(line) ==
    IF MatchStarts(line) = {} THEN <<>>
    ELSE LET i == CHOOSE p \in MatchStarts(line) :
                     \A q \in MatchStarts(line) : p <= q
         IN  DigitRun(line, i + 1)

\* Variant without the includes() test.
PushAlways(list, n) == Append(list, n)
\* if (!instances.includes(n)) instances.push(n)
PushIfNew(list, n) ==
    IF \E i \in 1..Len(list) : list[i] = n THEN list ELSE Append(list, n)

\* The for-of loop over the lines in getEusecInstances.
RECURSIVE ParseLines(_, _)
ParseLines(lines, acc) ==
    IF lines = <<>> THEN acc
    ELSE LET m == LineMatch(Head(lines))
         IN  ParseLines(Tail(lines),
                        IF m # <<>> THEN PushIfNew(acc, ParseInt(m)) ELSE acc)

\* Variant that sorts the numbers before it returns them.
ParseInstancesSorted(stdout) ==
    LET found == ParseLines(Split(Trim(stdout)), <<>>)
    IN  CHOOSE sorted \in [1..Len(found) -> Range(found)] :
            \A i, j \in 1..Len(found) : i < j => sorted[i] < sorted[j]
\* getEusecInstances when the inventory command printed stdout.
ParseInstances(stdout) == ParseLines(Split(Trim(stdout)), <<>>)

\* Variant of the loop that stops one element early.
HasNextSkipsLast(i, list) == i + 1 < Len(list)
\* The for-of loop of main has another element after position i.
HasNext(i, list) == i < Len(list)

\* Variant that ignores failCount.
FinalExitCodeAlwaysZero(fc) == 0
\* if (failCount > 0) process.exit(1); process.exit(0)
FinalExitCode(fc) == IF fc > 0 THEN 1 ELSE 0

----------------------------------------------------------------------------
(* External commands *)

\* String(n) of a non-negative integer, as in a template literal.
DigitChar(k) ==
    CASE k = 0 -> "0" [] k = 1 -> "1" [] k = 2 -> "2" [] k = 3 -> "3"
      [] k = 4 -> "4" [] k = 5 -> "5" [] k = 6 -> "6" [] k = 7 -> "7"
      [] k = 8 -> "8" [] k = 9 -> "9"

RECURSIVE ToString(_)
ToString(n) ==
    IF n < 10 THEN <<DigitChar(n)>>
    ELSE ToString(n \div 10) \o <<DigitChar(n % 10)>>

\* `system.adapter.eusec.${instanceNumber}`
ObjectId(n) == <<PREFIX>> \o ToString(n)

NodeProcessParams == "common.nodeProcessParams"

ListCmd == [cmd |-> "list", n |-> -1, result |-> "pending"]

\* Variant that assigns the whole of common.
SetCmdWholeCommon(n) ==
    [cmd |-> "set", n |-> n, result |-> "pending",
     id |-> ObjectId(n), field |-> "common", value |-> <<>>]
\* `iob object set ${objectId} common.nodeProcessParams=[]`
SetCmd(n) ==
    [cmd |-> "set", n |-> n, result |-> "pending",
     id |-> ObjectId(n), field |-> NodeProcessParams, value |-> <<>>]

\* The objects of the host before the run: three eusec instances with a
\* non-empty common.nodeProcessParams.
HostObjectIds == { <<PREFIX, "0">>, <<PREFIX, "2">>, <<PREFIX, "2", "0">> }
InitialHost ==
    [id \in HostObjectIds |->
        [nodeProcessParams |-> <<"--flag">>, mode |-> <<"daemon">>]]

\* `iob object set <id> <field>=<value>` carried out by the host: the named
\* field of the named object is overwritten, an unknown id changes nothing.
HostAssign(common, field, value) ==
    CASE field = NodeProcessParams -> [common EXCEPT !.nodeProcessParams = value]
      [] field = "common" -> [f \in DOMAIN common |-> value]
      [] OTHER -> common
HostApply(h, c) ==
    IF c.id \in DOMAIN h
    THEN [h EXCEPT ![c.id] = HostAssign(@, c.field, c.value)]
    ELSE h

\* execSync(command) is entered.
Invoked(cs, c) == Append(cs, c)

\* The command in flight returned ("ok") or threw ("throw").
Completed(cs, i, res) == [cs EXCEPT ![i].result = res]

SetCalls == { i \in 1..Len(calls) : calls[i].cmd = "set" }
ListCalls == { i \in 1..Len(calls) : calls[i].cmd = "list" }

----------------------------------------------------------------------------
Init ==
    /\ version \in Versions
    /\ pc = "main"
    /\ output = <<>>
    /\ instances = <<>>
    /\ idx = 0
    /\ successCount = 0
    /\ failCount = 0
    /\ exitCode = NoExit
    /\ calls = <<>>
    /\ running = {}
    /\ host = InitialHost

\* Variant that lists the instances before it looks at the version.
MainStartListsFirst ==
    /\ pc = "main"
    /\ pc' = "listing"
    /\ calls' = Invoked(calls, ListCmd)
    /\ running' = running \cup {Len(calls) + 1}
    /\ UNCHANGED <<version, output, instances, idx, successCount, failCount,
                   exitCode, host>>
\* main up to the inventory command: the version gate.
MainStart ==
    /\ pc = "main"
    /\ IF VersionTooOld(getNodeVersion(version))
       THEN /\ pc' = "exited"
            /\ exitCode' = 0
            /\ UNCHANGED <<calls, running>>
       ELSE /\ pc' = "listing"
            /\ calls' = Invoked(calls, ListCmd)
            /\ running' = running \cup {Len(calls) + 1}
            /\ UNCHANGED exitCode
    /\ UNCHANGED <<version, output, instances, idx, successCount, failCount,
                   host>>

\* Variant with a non-blocking exec: all mutation commands are started at once.
InventoryReturnAsync ==
    /\ pc = "listing"
    /\ running = {Len(calls)}
    /\ \E stdout \in Outputs :
       LET found == ParseInstances(stdout)
           done  == Completed(calls, Len(calls), "ok")
           all   == done \o [i \in 1..Len(found) |-> SetCmd(found[i])]
       IN  /\ output' = stdout
           /\ instances' = found
           /\ calls' = all
           /\ running' = { i \in 1..Len(all) : all[i].result = "pending" }
           /\ IF Len(found) = 0
              THEN pc' = "exited" /\ exitCode' = 0 /\ idx' = idx
              ELSE pc' = "fixing" /\ exitCode' = exitCode /\ idx' = Len(found)
    /\ UNCHANGED <<version, successCount, failCount, host>>
\* The inventory command returns stdout: parse it, leave on an empty list,
\* otherwise enter the loop and invoke the first mutation command.
InventoryReturn ==
    /\ pc = "listing"
    /\ running = {Len(calls)}
    /\ \E stdout \in Outputs :
       LET found == ParseInstances(stdout)
           done  == Completed(calls, Len(calls), "ok")
       IN  /\ output' = stdout
           /\ instances' = found
           /\ IF Len(found) = 0
              THEN /\ pc' = "exited"
                   /\ exitCode' = 0
                   /\ calls' = done
                   /\ running' = {}
                   /\ idx' = idx
              ELSE /\ pc' = "fixing"
                   /\ idx' = 1
                   /\ calls' = Invoked(done, SetCmd(found[1]))
                   /\ running' = {Len(calls) + 1}
                   /\ UNCHANGED exitCode
    /\ UNCHANGED <<version, successCount, failCount, host>>

\* Variant without the catch in getEusecInstances: the uncaught error ends
\* the process with status 1.
InventoryThrowPropagates ==
    /\ pc = "listing"
    /\ running = {Len(calls)}
    /\ calls' = Completed(calls, Len(calls), "throw")
    /\ running' = {}
    /\ pc' = "exited"
    /\ exitCode' = 1
    /\ UNCHANGED <<version, output, instances, idx, successCount, failCount,
                   host>>
\* The inventory command throws: getEusecInstances returns [], main exits 0.
InventoryThrow ==
    /\ pc = "listing"
    /\ running = {Len(calls)}
    /\ calls' = Completed(calls, Len(calls), "throw")
    /\ running' = {}
    /\ instances' = <<>>
    /\ pc' = "exited"
    /\ exitCode' = 0
    /\ UNCHANGED <<version, output, idx, successCount, failCount, host>>

\* The rest of a loop iteration once the counters are sc and fc: the next
\* mutation command, or the end of main.
LoopStep(done, sc, fc) ==
    /\ successCount' = sc
    /\ failCount' = fc
    /\ IF HasNext(idx, instances)
       THEN /\ idx' = idx + 1
            /\ calls' = Invoked(done, SetCmd(instances[idx + 1]))
            /\ running' = {Len(done) + 1}
            /\ UNCHANGED <<pc, exitCode>>
       ELSE /\ pc' = "exited"
            /\ exitCode' = FinalExitCode(fc)
            /\ calls' = done
            /\ running' = {}
            /\ UNCHANGED idx
    /\ UNCHANGED <<version, output, instances>>

\* The mutation command of instances[idx] returns: the host has carried it
\* out.
MutationReturn ==
    /\ pc = "fixing"
    /\ \E i \in running :
          /\ LoopStep(Completed(calls, i, "ok"), successCount + 1, failCount)
          /\ host' = HostApply(host, calls[i])

\* Variant without the catch in the loop: the first failure ends the run.
MutationThrowAborts ==
    /\ pc = "fixing"
    /\ \E i \in running :
          /\ calls' = Completed(calls, i, "throw")
          /\ running' = running \ {i}
          /\ failCount' = failCount + 1
          /\ pc' = "exited"
          /\ exitCode' = 1
          /\ UNCHANGED <<version, output, instances, idx, successCount, host>>
\* Variant that invokes a failed mutation command a second time.
MutationThrowRetries ==
    /\ pc = "fixing"
    /\ \E i \in running :
          IF \E j \in 1..(i - 1) : calls[j].cmd = "set" /\ calls[j].n = calls[i].n
          THEN /\ LoopStep(Completed(calls, i, "throw"),
                            successCount, failCount + 1)
               /\ UNCHANGED host
          ELSE /\ calls' = Invoked(Completed(calls, i, "throw"), SetCmd(calls[i].n))
               /\ running' = {Len(calls) + 1}
               /\ UNCHANGED <<version, pc, output, instances, idx,
                              successCount, failCount, exitCode, host>>
\* Variant whose catch never hands control back to the loop.
MutationThrowStalls ==
    /\ pc = "fixing"
    /\ \E i \in running :
          /\ calls' = Completed(calls, i, "throw")
          /\ running' = running \ {i}
          /\ failCount' = failCount + 1
          /\ host' \in {host, HostApply(host, calls[i])}
          /\ UNCHANGED <<version, pc, output, instances, idx, successCount,
                         exitCode>>
\* Variant with successCount++ after the try statement: a failure counts twice.
MutationThrowCountsBoth ==
    /\ pc = "fixing"
    /\ \E i \in running :
          /\ LoopStep(Completed(calls, i, "throw"),
                      successCount + 1, failCount + 1)
          /\ host' \in {host, HostApply(host, calls[i])}
\* The mutation command of instances[idx] throws: fixInstance rethrows and
\* main counts the failure. The host may or may not have carried it out.
MutationThrow ==
    /\ pc = "fixing"
    /\ \E i \in running :
          /\ LoopStep(Completed(calls, i, "throw"), successCount, failCount + 1)
          /\ host' \in {host, HostApply(host, calls[i])}

Next ==
    \/ MainStart
    \/ InventoryReturn
    \/ InventoryThrow
    \/ MutationReturn
    \/ MutationThrow

Spec == Init /\ [][Next]_vars

\* The script runs on and every external command eventually returns or
\* throws: some step is taken as long as one is possible.
SpecFair == Spec /\ WF_vars(Next)

----------------------------------------------------------------------------
(* Vocabulary of the properties, stated on the raw text and on the call    *)
(* history rather than through the parser                                  *)

Major == getNodeVersion(version)

Exited == pc = "exited"

SetCallsFor(n) == { i \in SetCalls : calls[i].n = n }

FailedSetCalls == { i \in SetCalls : calls[i].result = "throw" }

InventoryReturned == \E i \in ListCalls : calls[i].result = "ok"

InventoryThrew == \E i \in ListCalls : calls[i].result = "throw"

\* The integer of the identifier that starts at position i of text.
IdAt(text, i) == ParseInt(DigitRun(text, i + 1))

\* The integers n for which system.adapter.eusec.<n> occurs in text.
IdsIn(text) == { IdAt(text, i) : i \in MatchStarts(text) }

\* The identifier at position i is the leftmost one of its line.
FirstOnLine(text, i) ==
    /\ i \in MatchStarts(text)
    /\ ~ \E j \in MatchStarts(text) :
            /\ j < i
            /\ \A k \in j..i : text[k] # NL

\* The integers of the identifiers that are the leftmost of their line.
FirstIdsIn(text) ==
    { IdAt(text, i) : i \in { p \in MatchStarts(text) : FirstOnLine(text, p) } }

\* The number of lines of text that hold an identifier.
MatchingLines(text) ==
    Cardinality({ p \in MatchStarts(text) : FirstOnLine(text, p) })

NoDuplicates(list) ==
    \A i, j \in 1..Len(list) : i # j => list[i] # list[j]

----------------------------------------------------------------------------
\* C1: when a mutation command throws, the loop goes on: once main has
\* exited, every instance listed after the failing one had its mutation
\* command invoked after the failure, and the exit status is 1.
C1_FailureDoesNotAbort ==
    (Exited /\ FailedSetCalls # {}) =>
        /\ exitCode = 1
        /\ \A i \in FailedSetCalls :
             \A p \in 1..Len(instances) :
                instances[p] = calls[i].n =>
                   \A q \in (p + 1)..Len(instances) :
                      \E j \in SetCallsFor(instances[q]) : j > i

C1_Witness ==
    /\ Exited
    /\ Len(instances) >= 2
    /\ \E i \in FailedSetCalls : calls[i].n = instances[1]
    /\ \E j \in SetCalls : calls[j].n = instances[2] /\ calls[j].result = "ok"

\* C2: with major version >= 22 and a non-empty list discovered, a finished
\* run has invoked the mutation command exactly once for each discovered
\* instance and for nothing else, and exits 0 if all of them succeeded.
C2_OncePerInstance ==
    (Exited /\ Major >= MinNodeVersion /\ instances # <<>>) =>
        /\ \A p \in 1..Len(instances) :
              Cardinality(SetCallsFor(instances[p])) = 1
        /\ \A i \in SetCalls : calls[i].n \in Range(instances)
        /\ (FailedSetCalls = {} => exitCode = 0)

C2_Witness ==
    /\ Exited
    /\ Major = MinNodeVersion
    /\ instances = <<0, 2>>
    /\ Cardinality(SetCalls) = 2
    /\ FailedSetCalls = {}
    /\ exitCode = 0

\* C3: with major version below 22 no mutation command is ever invoked and
\* the exit status, once main has exited, is 0.
C3_OldVersionNoMutation ==
    Major < MinNodeVersion =>
        /\ SetCalls = {}
        /\ pc \in {"main", "exited"}
        /\ (Exited => exitCode = 0)

C3_Witness == Exited /\ Major = MinNodeVersion - 1 /\ exitCode = 0

\* C4: when the inventory command throws, the list of instances is empty,
\* no mutation command is invoked and main has exited with status 0.
C4_InventoryErrorIsNoInstances ==
    InventoryThrew =>
        /\ instances = <<>>
        /\ SetCalls = {}
        /\ Exited
        /\ exitCode = 0

C4_Witness == InventoryThrew /\ Exited

\* C5: the exit status is 0 or 1, and it is 1 exactly when a mutation
\* command failed during the run (failCount > 0).
C5_ExitCodeReflectsFailures ==
    /\ Exited =>
         /\ exitCode \in {0, 1}
         /\ (exitCode = 1 <=> failCount > 0)
         /\ (exitCode = 1 <=> FailedSetCalls # {})
    /\ ~ Exited => exitCode = NoExit

C5_Witness == Exited /\ exitCode = 1 /\ successCount > 0

\* C6: the list returned by getEusecInstances holds each number at most
\* once, and only lines that hold an identifier contribute an element.
C6_Deduplicated ==
    InventoryReturned =>
        /\ NoDuplicates(instances)
        /\ Range(instances) \subseteq IdsIn(output)
        /\ Len(instances) <= MatchingLines(output)

C6_Witness ==
    /\ InventoryReturned
    /\ MatchingLines(output) = 2
    /\ Len(instances) = 1
    /\ \E i \in 1..Len(output) : output[i] = "x"

\* C7: with major version >= 22 and an inventory output that holds no
\* identifier, main has exited with status 0 without a mutation command.
C7_NoInstancesNoMutation ==
    (Major >= MinNodeVersion /\ InventoryReturned /\ IdsIn(output) = {}) =>
        /\ Exited
        /\ exitCode = 0
        /\ SetCalls = {}

C7_Witness ==
    /\ InventoryReturned
    /\ IdsIn(output) = {}
    /\ \E i \in 1..Len(output) : output[i] = PREFIX
    /\ Exited

\* C8 as stated: the instances returned are exactly the integers of the
\* identifiers that occur anywhere in the inventory output.
C8_AllIdentifiersAnywhere ==
    InventoryReturned => Range(instances) = IdsIn(output)

\* C8 amended: the instances returned are exactly the integers of the
\* identifiers that are the leftmost identifier of some line of the output.
C8_FirstIdentifierPerLine ==
    InventoryReturned => Range(instances) = FirstIdsIn(output)

C8_Witness ==
    /\ InventoryReturned
    /\ instances # <<>>
    /\ FirstIdsIn(output) # IdsIn(output)

\* C9: a failed mutation command is never invoked again for its instance,
\* and a finished run has made as many mutation invocations as there are
\* distinct discovered instances, however many failed.
C9_NoRetry ==
    /\ \A i \in FailedSetCalls :
          \A j \in SetCalls : j # i => calls[j].n # calls[i].n
    /\ (Exited /\ InventoryReturned) =>
          Cardinality(SetCalls) = Cardinality(Range(instances))

C9_Witness ==
    /\ Exited
    /\ Len(instances) >= 2
    /\ Cardinality(FailedSetCalls) >= 1
    /\ Cardinality(SetCalls) = 2

\* C10: at most one external command is in flight, every command but the
\* last invoked one has completed, and a mutation command is only invoked
\* after the inventory command has completed.
C10_StrictlySequential ==
    /\ Cardinality(running) <= 1
    /\ running = { i \in 1..Len(calls) : calls[i].result = "pending" }
    /\ \A i \in 1..(Len(calls) - 1) : calls[i].result # "pending"
    /\ \A i \in SetCalls :
          \E j \in ListCalls : j < i /\ calls[j].result # "pending"

C10_Witness ==
    /\ pc = "fixing"
    /\ idx = 2
    /\ running = {3}
    /\ calls[2].result = "throw"

\* C11: every mutation command names the object id system.adapter.eusec.<n>
\* of a discovered instance n and assigns [] to common.nodeProcessParams only;
\* on the host no other field of any object changes, an object that is not
\* the target of a mutation command does not change at all, and the
\* nodeProcessParams of an instance whose mutation succeeded is empty.
C11_OnlyNodeProcessParamsCleared ==
    /\ \A i \in SetCalls :
          /\ calls[i].n \in Range(instances)
          /\ Head(calls[i].id) = PREFIX
          /\ Tail(calls[i].id) # <<>>
          /\ \A k \in 1..Len(Tail(calls[i].id)) :
                Tail(calls[i].id)[k] \in {"0", "1", "2", "3", "4",
                                          "5", "6", "7", "8", "9"}
          /\ ParseInt(Tail(calls[i].id)) = calls[i].n
          /\ calls[i].field = "common.nodeProcessParams"
          /\ calls[i].value = <<>>
    /\ \A id \in HostObjectIds :
          /\ host[id].mode = InitialHost[id].mode
          /\ ((~ \E i \in SetCalls : calls[i].result # "pending"
                                     /\ ParseInt(Tail(id)) = calls[i].n)
                 => host[id] = InitialHost[id])
          /\ host[id].nodeProcessParams
                \in {InitialHost[id].nodeProcessParams, <<>>}
          /\ ((\E i \in SetCalls : calls[i].result = "ok"
                                   /\ ParseInt(Tail(id)) = calls[i].n)
                 => host[id].nodeProcessParams = <<>>)

C11_Witness ==
    /\ Exited
    /\ instances = <<2, 0>>
    /\ calls[2].result = "ok"
    /\ calls[3].result = "throw"
    /\ host[<<PREFIX, "2">>].nodeProcessParams = <<>>
    /\ host[<<PREFIX, "0">>] = InitialHost[<<PREFIX, "0">>]
    /\ host[<<PREFIX, "2", "0">>] = InitialHost[<<PREFIX, "2", "0">>]

CompletedSetCalls == { i \in SetCalls : calls[i].result # "pending" }

\* C12: successCount counts the mutation commands that returned and
\* failCount those that threw, so their sum is the number of completed
\* mutation commands; a step that completes one raises exactly one of the
\* counters by one; when the loop has ended the sum is the number of
\* discovered instances.
C12_CountersPartitionAttempts ==
    /\ successCount = Cardinality(CompletedSetCalls \ FailedSetCalls)
    /\ failCount = Cardinality(FailedSetCalls)
    /\ successCount + failCount = Cardinality(CompletedSetCalls)
    /\ (pc = "fixing" => successCount + failCount = idx - 1)
    /\ ((Exited /\ InventoryReturned) =>
           successCount + failCount = Len(instances))

C12_Witness ==
    /\ Exited
    /\ Len(instances) = 2
    /\ successCount = 1
    /\ failCount = 1

\* C13: with major version below 22 no external command is ever invoked,
\* the inventory command included; with major version >= 22 the inventory
\* command is invoked exactly once, as the first command of the run.
C13_GateBeforeEveryCommand ==
    /\ Major < MinNodeVersion => calls = <<>>
    /\ Major >= MinNodeVersion =>
          /\ Cardinality(ListCalls) = (IF pc = "main" THEN 0 ELSE 1)
          /\ (calls # <<>> => calls[1].cmd = "list")

C13_Witness ==
    /\ Exited
    /\ Major = MinNodeVersion
    /\ Cardinality(ListCalls) = 1
    /\ Cardinality(SetCalls) = 2

\* The first position of text where the identifier of n occurs.
FirstPosAnywhere(text, n) ==
    CHOOSE i \in MatchStarts(text) :
        /\ IdAt(text, i) = n
        /\ \A j \in MatchStarts(text) : IdAt(text, j) = n => i <= j

\* The first position of text where the identifier of n is the leftmost
\* identifier of its line.
FirstPosOnLine(text, n) ==
    CHOOSE i \in MatchStarts(text) :
        /\ FirstOnLine(text, i) /\ IdAt(text, i) = n
        /\ \A j \in MatchStarts(text) :
              (FirstOnLine(text, j) /\ IdAt(text, j) = n) => i <= j

\* The k-th mutation command of the run is the one of instances[k].
MutationsFollowInstances ==
    \A i \in SetCalls : i - 1 <= Len(instances) /\ calls[i].n = instances[i - 1]

\* C14 as stated: the mutation commands follow the order in which the
\* instance numbers first occur anywhere in the inventory output.
C14_OrderOfFirstOccurrenceAnywhere ==
    InventoryReturned =>
        /\ MutationsFollowInstances
        /\ \A p, q \in 1..Len(instances) :
              p < q => FirstPosAnywhere(output, instances[p])
                         < FirstPosAnywhere(output, instances[q])

\* C14 amended: the mutation commands follow the order in which the instance
\* numbers first occur as the leftmost identifier of a line of the inventory
\* output, whatever the outcome of the earlier mutation commands.
C14_OrderOfFirstLineOccurrence ==
    InventoryReturned =>
        /\ MutationsFollowInstances
        /\ \A p, q \in 1..Len(instances) :
              p < q => FirstPosOnLine(output, instances[p])
                         < FirstPosOnLine(output, instances[q])

C14_Witness ==
    /\ Exited
    /\ instances = <<0, 20, 2>>
    /\ FirstPosAnywhere(output, 2) < FirstPosAnywhere(output, 20)
    /\ calls[2].result = "throw"
    /\ calls[3].n = 20
    /\ calls[4].n = 2

\* C15: when every external command eventually returns or throws, main
\* eventually exits; it exits once, with status 0 or 1 and no command in
\* flight, and after the exit nothing happens any more: no command is
\* invoked and the status does not change.
C15_Terminates ==
    /\ <>Exited
    /\ [](Exited <=> exitCode \in {0, 1})
    /\ [](Exited => running = {})
    /\ [][Exited => (Exited' /\ exitCode' = exitCode /\ calls' = calls)]_vars

C15_Witness ==
    /\ Exited
    /\ Cardinality(SetCalls) = 3
    /\ failCount = 2
    /\ exitCode = 1

====
